---- MODULE Spec2Model ----
(***************************************************************************)
(* Fixed-window quota buckets (package leakybucket): the in-memory backend *)
(* (package memory) and the redis backend (package redis).                 *)
(*                                                                         *)
(* The clock counts units of 500 microseconds, so that both the            *)
(* millisecond truncations of the redis backend and the one hour retention *)
(* of the memory backend fit the integers of the model checker.            *)
(*                                                                         *)
(* A run is one of:                                                        *)
(*   "memory"  the memory backend, calls serialized by the caller;         *)
(*   "unsync"  the memory backend, two goroutines without synchronization; *)
(*   "redis"   the redis backend, two processes, one remote command a step;*)
(*   "faulty"  the redis backend with a process stopping and a failing     *)
(*             PEXPIRE;                                                    *)
(*   "errors"  the redis backend with commands that return errors;         *)
(*   "both"    one caller driving both backends with the same calls.       *)
(***************************************************************************)
EXTENDS Integers, Sequences, FiniteSets, TLC

\* ---------------------------------------------------------------- bounds
\* How many times the clock may advance in a run of the memory backend with
\* serialized calls.
MaxTicks == 2
\* How many times the clock may advance in a run of the redis backend or of
\* the memory backend without synchronization.
RedisTicks == 1
\* How far past zero a remaining that wrapped around may have gone for
\* another Add without synchronization to start.
MaxWrapped == 8

\* ------------------------------------------------------- program constants
\* time.Millisecond, in clock units.
millisecond == 2
\* One second (the resolution of time.Time.Unix), in clock units.
Second == 2000
\* time.Hour, the retention of Clean, in clock units.
Hour == 7200000

\* ------------------------------------------------------------ input sets
Procs == {1, 2}
Names == {"a", "b"}
\* The bucket names the processes of the redis backend use.
Keys == {"a"}
\* The (capacity, rate) pairs callers pass to Create: 1.5 ms and one second.
Args == {<<1, 3>>, <<2, 2000>>}
Amounts == {0, 1, 2}
Steps == {2000, 7200000}
\* By how much the clock advances in a run of the redis backend, and in a run
\* of the memory backend without synchronization: half a second, which ends
\* the window of a rate of 1.5 ms and not that of one second.
RedisSteps == {1000}
\* Times a caller passes to AddWithTime, relative to the wall clock.
Offsets == {-1, 2001}
\* The callers that replay events with AddWithTime.
Replayers == {1}
\* The processes that can stop, and whose PEXPIRE can fail.
Faulty == {1}

nil == "nil"
ErrorFull == "ErrorFull"
\* The error of a remote command that failed.
ErrorIO == "ErrorIO"

VARIABLES
    mode,      \* the kind of run
    now,       \* the wall clock
    ticks,     \* how many times the clock advanced
    heap,      \* memory: the bucket structs allocated so far
    buckets,   \* memory: Storage.buckets, name -> index in heap (0: no entry)
    mh,        \* memory: the *bucket each caller holds (0: none) and its name
    acc,       \* memory: per struct, the history of its serialized calls
    last,      \* memory: the last call that returned
    store,     \* redis: the keys of the server
    sh,        \* redis: the *bucket each process holds
    pc,        \* where each process is in its call
    loc,       \* the locals of the call each process is in
    res,       \* redis: what the last call of each process returned
    hist       \* history of the run, read by the properties only

clockvars == <<mode, now, ticks>>
memvars == <<heap, buckets, mh, acc, last>>
redisvars == <<store, sh, res>>
callvars == <<pc, loc>>
vars == <<mode, now, ticks, heap, buckets, mh, acc, last, store, sh, pc, loc, res, hist>>

\* ---------------------------------------------------------------- helpers
min(a, b) == IF a < b THEN a ELSE b

\* time.Time.After and time.Time.Before are strict.
After(t, u) == t > u
Before(t, u) == t < u

\* time.Time.Unix: whole seconds, rounded down.
Unix(t) == IF t >= 0 THEN t \div Second ELSE -((-t + Second - 1) \div Second)

\* ---------------------------------------------------------- memory backend
NoHandle == [obj |-> 0, name |-> "none"]
NoCall == [op |-> "none"]
NoLocals == [name |-> "none", capacity |-> 0, rate |-> 0, amount |-> 0, num |-> 0,
             wrote |-> 0, counted |-> FALSE, created |-> FALSE, conns |-> 0,
             moved |-> FALSE]

\* Rollover that advances reset and forgets to refill remaining.
RolloverKeep(b, t) ==
    IF After(t, b.reset) THEN [b EXCEPT !.reset = t + b.rate] ELSE b

\* memory.bucket.Add / AddWithTime, first if: the window rolls over.
Rollover(b, t) ==
    IF After(t, b.reset)
    THEN [b EXCEPT !.reset = t + b.rate, !.remaining = b.capacity]
    ELSE b

\* Realign that refills remaining.
RealignRefill(b, t) ==
    IF Before(t, b.reset - b.rate)
    THEN [b EXCEPT !.reset = t + b.rate, !.remaining = b.capacity]
    ELSE b

\* memory.bucket.AddWithTime, second if: the window is realigned.
Realign(b, t) ==
    IF Before(t, b.reset - b.rate)
    THEN [b EXCEPT !.reset = t + b.rate]
    ELSE b

\* Take that drains what is left when the amount does not fit.
TakeDrain(b, amount) ==
    IF amount > b.remaining
    THEN [bucket |-> [b EXCEPT !.remaining = 0], err |-> ErrorFull]
    ELSE [bucket |-> [b EXCEPT !.remaining = b.remaining - amount], err |-> nil]

\* Take that refuses the amount that fits exactly.
TakeStrict(b, amount) ==
    IF amount >= b.remaining
    THEN [bucket |-> b, err |-> ErrorFull]
    ELSE [bucket |-> [b EXCEPT !.remaining = b.remaining - amount], err |-> nil]

\* memory.bucket.Add / AddWithTime, the quota check and the decrement.
Take(b, amount) ==
    IF amount > b.remaining
    THEN [bucket |-> b, err |-> ErrorFull]
    ELSE [bucket |-> [b EXCEPT !.remaining = b.remaining - amount], err |-> nil]

\* What a call returned: the operation, its amount, the time it was given
\* (now for Add), whether the window logic changed reset, and the error.
CallRecord(op, o, amount, t, b0, b2, r) ==
    [op |-> op, obj |-> o, amount |-> amount, at |-> t,
     moved |-> b2.reset # b0.reset, err |-> r.err]

\* The history of struct o after a call at time t that found the struct as b0
\* and returned r: the amounts accepted since reset last changed (moved), the
\* amounts accepted since remaining was last refilled (refill), and the
\* capacity the struct was made with.
Accepted(o, amount, t, b0, r) ==
    LET took == IF r.err = nil THEN amount ELSE 0
    IN  [moved |-> (IF r.bucket.reset = b0.reset THEN acc[o].moved ELSE 0) + took,
         refill |-> (IF After(t, b0.reset) THEN 0 ELSE acc[o].refill) + took,
         made |-> acc[o].made]

\* memory.Storage.Create, the struct of a new bucket.
NewBucket(capacity, rate) ==
    [capacity |-> capacity, remaining |-> capacity, reset |-> now + rate,
     rate |-> rate, updated |-> now]

\* A lookup that never finds the name.
LookupMiss(name) == 0

\* memory.Storage.Create, b, ok := s.buckets[name] (0: not ok).
Lookup(name) == buckets[name]

\* memory.Storage.Create: a new entry of the table.
MemInsert(p, name, capacity, rate) ==
    /\ heap' = Append(heap, NewBucket(capacity, rate))
    /\ acc' = Append(acc, [moved |-> 0, refill |-> 0, made |-> capacity])
    /\ buckets' = [buckets EXCEPT ![name] = Len(heap) + 1]
    /\ mh' = [mh EXCEPT ![p] = [obj |-> Len(heap) + 1, name |-> name]]
    /\ last' = NoCall

\* A Create that refreshes updated on the bucket it finds.
MemFoundRefresh(p, name) ==
    /\ mh' = [mh EXCEPT ![p] = [obj |-> buckets[name], name |-> name]]
    /\ heap' = [heap EXCEPT ![buckets[name]].updated = now]
    /\ last' = NoCall
    /\ UNCHANGED <<buckets, acc>>

\* memory.Storage.Create: the bucket the table holds is returned.
MemFound(p, name) ==
    /\ mh' = [mh EXCEPT ![p] = [obj |-> Lookup(name), name |-> name]]
    /\ last' = NoCall
    /\ UNCHANGED <<heap, buckets, acc>>

\* memory.Storage.Create, on the structs of the memory backend.
MemCreate(p, name, capacity, rate) ==
    /\ mh[p] = NoHandle
    /\ IF Lookup(name) # 0
       THEN MemFound(p, name)
       ELSE MemInsert(p, name, capacity, rate)

\* memory.bucket.Add, on the structs of the memory backend.
MemAdd(p, amount) ==
    /\ mh[p] # NoHandle
    /\ LET o == mh[p].obj
           b0 == heap[o]
           b1 == [b0 EXCEPT !.updated = now]
           b2 == Rollover(b1, now)
           r == Take(b2, amount)
       IN  /\ heap' = [heap EXCEPT ![o] = r.bucket]
           /\ acc' = [acc EXCEPT ![o] = Accepted(o, amount, now, b0, r)]
           /\ last' = CallRecord("Add", o, amount, now, b0, b2, r)
    /\ UNCHANGED <<buckets, mh>>

\* memory.Storage.Create
Create(p, name, capacity, rate) ==
    /\ mode = "memory"
    /\ MemCreate(p, name, capacity, rate)
    /\ UNCHANGED <<clockvars, redisvars, callvars, hist>>

\* memory.bucket.Add
Add(p, amount) ==
    /\ mode = "memory"
    /\ pc[p] = "idle"
    /\ MemAdd(p, amount)
    /\ UNCHANGED <<clockvars, redisvars, callvars, hist>>

\* memory.bucket.AddWithTime
AddWithTime(p, amount, t) ==
    /\ mode = "memory"
    /\ mh[p] # NoHandle
    /\ LET o == mh[p].obj
           b0 == heap[o]
           b1 == [b0 EXCEPT !.updated = now]
           b2 == Realign(Rollover(b1, t), t)
           r == Take(b2, amount)
       IN  /\ heap' = [heap EXCEPT ![o] = r.bucket]
           /\ acc' = [acc EXCEPT ![o] = Accepted(o, amount, t, b0, r)]
           /\ last' = CallRecord("AddWithTime", o, amount, t, b0, b2, r)
    /\ UNCHANGED <<clockvars, buckets, mh, redisvars, callvars, hist>>

\* An eviction that also takes the entries updated exactly one hour ago.
IdleAtHour(b, t) == ~After(b.updated, t - Hour)

\* memory.Storage.Clean: the condition under which an entry is deleted.
Idle(b, t) == Before(b.updated, t - Hour)

\* memory.Storage.Clean
Clean(name) ==
    /\ mode = "memory"
    /\ buckets' = [n \in Names |->
                     IF buckets[n] # 0 /\ Idle(heap[buckets[n]], now)
                     THEN 0 ELSE buckets[n]]
    /\ last' = NoCall
    /\ UNCHANGED <<clockvars, heap, mh, acc, redisvars, callvars, hist>>

\* uint has 64 bits. The integers of the model checker have 32, so a uint v
\* is held as the int64 with the same bits: v itself below 2^63 and v - 2^64
\* from 2^63 on, so that -1 is 2^64 - 1 and -2 is 2^64 - 2. On this encoding
\* the difference modulo 2^64 of two uints is the difference of the integers.
\* A uint of 2^63 or more.
Wrapped(v) == v < 0

\* a > b on uint.
Above(a, b) == IF Wrapped(a) = Wrapped(b) THEN a > b ELSE Wrapped(a)

\* A quota check against the capacity in place of remaining.
FitsCapacity(b, amount) == ~(amount > b.capacity)

\* memory.bucket.Add, the quota check: the amount fits.
Fits(b, amount) == ~Above(amount, b.remaining)

\* The positions of a goroutine inside memory.bucket.Add.
InAdd == {"after", "reset", "refill", "check", "load", "store"}

\* What an Add without synchronization returns: the record of the call, with
\* whether this call assigned reset.
Returned(p, r) ==
    [op |-> "Add", obj |-> mh[p].obj, amount |-> loc[p].amount, at |-> now,
     moved |-> loc[p].moved, err |-> r]

\* memory.bucket.Add without synchronization: b.updated = time.Now(). The
\* call overlaps with the Add of every other goroutine that is inside Add on
\* the same struct.
AddUpdated(p, amount) ==
    /\ mode = "unsync"
    /\ pc[p] = "idle"
    /\ mh[p] # NoHandle
    /\ heap[mh[p].obj].remaining >= -MaxWrapped
    /\ LET o == mh[p].obj
       IN  /\ heap' = [heap EXCEPT ![o].updated = now]
           /\ hist' = [hist EXCEPT !.torn =
                          IF \E q \in Procs \ {p} :
                                 pc[q] \in InAdd /\ mh[q].obj = o
                          THEN @ \cup {o} ELSE @]
    /\ pc' = [pc EXCEPT ![p] = "after"]
    /\ loc' = [loc EXCEPT ![p] = [NoLocals EXCEPT !.amount = amount]]
    /\ last' = NoCall
    /\ UNCHANGED <<clockvars, buckets, mh, acc, redisvars>>

\* memory.bucket.Add without synchronization: if time.Now().After(b.reset).
\* A read of reset that is torn by a write of another goroutine compares as
\* the value before or the value after that write: both orders are steps.
AddAfter(p) ==
    /\ pc[p] = "after"
    /\ pc' = [pc EXCEPT ![p] =
                 IF After(now, heap[mh[p].obj].reset) THEN "reset" ELSE "check"]
    /\ UNCHANGED <<clockvars, memvars, redisvars, loc, hist>>

\* memory.bucket.Add without synchronization: b.reset = time.Now().Add(b.rate).
AddReset(p) ==
    /\ pc[p] = "reset"
    /\ LET o == mh[p].obj
       IN  heap' = [heap EXCEPT ![o].reset = now + heap[o].rate]
    /\ loc' = [loc EXCEPT ![p].moved = TRUE]
    /\ pc' = [pc EXCEPT ![p] = "refill"]
    /\ UNCHANGED <<clockvars, buckets, mh, acc, last, redisvars, hist>>

\* memory.bucket.Add without synchronization: b.remaining = b.capacity.
AddRefill(p) ==
    /\ pc[p] = "refill"
    /\ LET o == mh[p].obj
       IN  heap' = [heap EXCEPT ![o].remaining = heap[o].capacity]
    /\ pc' = [pc EXCEPT ![p] = "check"]
    /\ UNCHANGED <<clockvars, buckets, mh, acc, last, redisvars, loc, hist>>

\* memory.bucket.Add without synchronization: if amount > b.remaining, and
\* the return of ErrorFull.
AddCheck(p) ==
    /\ pc[p] = "check"
    /\ IF Fits(heap[mh[p].obj], loc[p].amount)
       THEN /\ pc' = [pc EXCEPT ![p] = "load"]
            /\ UNCHANGED <<loc, last>>
       ELSE /\ last' = Returned(p, ErrorFull)
            /\ pc' = [pc EXCEPT ![p] = "idle"]
            /\ loc' = [loc EXCEPT ![p] = NoLocals]
    /\ UNCHANGED <<clockvars, heap, buckets, mh, acc, redisvars, hist>>

\* memory.bucket.Add without synchronization: b.remaining -= amount, the read.
AddLoad(p) ==
    /\ pc[p] = "load"
    /\ loc' = [loc EXCEPT ![p].num = heap[mh[p].obj].remaining]
    /\ pc' = [pc EXCEPT ![p] = "store"]
    /\ UNCHANGED <<clockvars, memvars, redisvars, hist>>

\* memory.bucket.Add without synchronization: b.remaining -= amount, the
\* write (a difference below zero is the uint that wrapped around), and the
\* return.
AddStore(p) ==
    /\ pc[p] = "store"
    /\ LET o == mh[p].obj
       IN  heap' = [heap EXCEPT ![o].remaining = loc[p].num - loc[p].amount]
    /\ last' = Returned(p, nil)
    /\ pc' = [pc EXCEPT ![p] = "idle"]
    /\ loc' = [loc EXCEPT ![p] = NoLocals]
    /\ UNCHANGED <<clockvars, buckets, mh, acc, redisvars, hist>>

\* The goroutines whose access to the table of memory.Storage can happen at
\* the same time as an access of p: they are between their lookup and their
\* insert. The table is a Go map, which is not safe for concurrent use.
Racing(p) == {q \in Procs \ {p} : pc[q] = "insert"}

\* The Go runtime found the map read or written by two goroutines at once and
\* ended the process (fatal error: concurrent map writes, or concurrent map
\* read and map write): no goroutine takes another step.
MapFault ==
    /\ pc' = [q \in Procs |-> "dead"]
    /\ loc' = [q \in Procs |-> NoLocals]
    /\ last' = NoCall
    /\ UNCHANGED <<clockvars, heap, buckets, mh, acc, redisvars>>

\* memory.Storage.Create without synchronization: the lookup in the table.
\* A lookup that runs while another goroutine is between its own lookup and
\* its insert overlaps with that Create, whatever the names are.
CreateLookup(p, name, capacity, rate) ==
    /\ mode = "unsync"
    /\ pc[p] = "idle"
    /\ mh[p] = NoHandle
    /\ hist' = [hist EXCEPT !.overlap =
                   [n \in Names |-> @[n] \/ Racing(p) # {}]]
    /\ IF Lookup(name) # 0
       THEN /\ MemFound(p, name)
            /\ UNCHANGED callvars
       ELSE /\ pc' = [pc EXCEPT ![p] = "insert"]
            /\ loc' = [loc EXCEPT ![p] = [NoLocals EXCEPT !.name = name,
                                             !.capacity = capacity, !.rate = rate]]
            /\ UNCHANGED memvars
    /\ UNCHANGED <<clockvars, redisvars>>

\* memory.Storage.Create without synchronization: the new bucket is stored.
CreateInsert(p) ==
    /\ pc[p] = "insert"
    /\ MemInsert(p, loc[p].name, loc[p].capacity, loc[p].rate)
    /\ pc' = [pc EXCEPT ![p] = "idle"]
    /\ loc' = [loc EXCEPT ![p] = NoLocals]
    /\ UNCHANGED <<clockvars, redisvars, hist>>

\* memory.Storage.Create without synchronization: the lookup or the insert
\* happens while another goroutine writes the table, and the runtime ends the
\* process.
CreateFault(p) ==
    /\ mode = "unsync"
    /\ \/ pc[p] = "idle" /\ mh[p] = NoHandle
       \/ pc[p] = "insert"
    /\ Racing(p) # {}
    /\ hist' = [hist EXCEPT !.overlap = [n \in Names |-> TRUE]]
    /\ MapFault

\* memory.Storage.Create without synchronization: the insert happens while
\* another goroutine writes the table, the runtime does not notice, and the
\* table is left with any content; the bucket is returned.
CreateInsertTorn(p, t) ==
    /\ pc[p] = "insert"
    /\ Racing(p) # {}
    /\ t \in [Names -> 0..(Len(heap) + 1)]
    /\ heap' = Append(heap, NewBucket(loc[p].capacity, loc[p].rate))
    /\ acc' = Append(acc, [moved |-> 0, refill |-> 0, made |-> loc[p].capacity])
    /\ buckets' = t
    /\ mh' = [mh EXCEPT ![p] = [obj |-> Len(heap) + 1, name |-> loc[p].name]]
    /\ last' = NoCall
    /\ pc' = [pc EXCEPT ![p] = "idle"]
    /\ loc' = [loc EXCEPT ![p] = NoLocals]
    /\ UNCHANGED <<clockvars, redisvars, hist>>

\* ----------------------------------------------------------- redis server
NoExpiry == -1
NoKey == [live |-> FALSE, val |-> 0, exp |-> NoExpiry]

\* The server's clock: whole milliseconds.
mstime(t) == t \div millisecond

\* A key whose expiry has passed is gone.
Expired(k, t) == k.live /\ k.exp # NoExpiry /\ mstime(t) > k.exp

\* GET key: the value, or nil for no key.
GET(n) == IF store[n].live THEN store[n].val ELSE -1

\* INCRBY that stores the amount in place of the sum.
INCRBYSet(n, amount) == [live |-> TRUE, val |-> amount, exp |-> store[n].exp]

\* INCRBY key amount: the key after the command (a missing key counts from 0
\* and gets no expiry).
INCRBY(n, amount) ==
    IF store[n].live
    THEN [store[n] EXCEPT !.val = store[n].val + amount]
    ELSE [live |-> TRUE, val |-> amount, exp |-> NoExpiry]

\* PEXPIRE key ms: the key after the command.
PEXPIRE(n, ms) ==
    IF ~store[n].live THEN store[n]
    ELSE IF ms <= 0 THEN NoKey
    ELSE [store[n] EXCEPT !.exp = mstime(now) + ms]

\* PTTL key: -2 for no key, -1 for a key without expiry.
PTTL(n) ==
    IF ~store[n].live THEN -2
    ELSE IF store[n].exp = NoExpiry THEN -1
    ELSE store[n].exp - mstime(now)

\* ----------------------------------------------------------- redis backend
NoBucket == [name |-> "none", capacity |-> 0, remaining |-> 0, reset |-> 0, rate |-> 0]
NoResult == [op |-> "none", err |-> nil, wrote |-> 0, peak |-> 0, open |-> 0,
             dropped |-> nil]
NoArgs == [capacity |-> 0, rate |-> 0, found |-> FALSE]

\* Project without the clamp.
ProjectUnclamped(capacity, num) == capacity - num

\* redis.bucket.Add, the projection of the counter on remaining.
Project(capacity, num) == capacity - min(num, capacity)

\* A quota check that lets every amount pass.
FullNever(amount, remaining) == FALSE

\* redis.bucket.Add, the quota check.
Full(amount, remaining) == amount > remaining

\* A test for the first write that no write passes.
FirstWriteNever(count, amount) == FALSE

\* A test for the first write that every write passes.
FirstWriteAlways(count, amount) == TRUE

\* redis.bucket.Add, the test for the first write to a key.
FirstWrite(count, amount) == count = amount

\* redis.bucket.Add, the expiry handed to PEXPIRE.
expiry(rate) == rate \div millisecond

\* A deferred Close that releases nothing.
CloseNever(conns) == conns

\* defer conn.Close(): of the connections a call holds, those it still holds
\* after it returned.
Close(conns) == conns - 1

\* redis.bucket.updateOldReset: the connections it borrows, and releases when
\* it returns.
Borrowed(b) == IF Unix(b.reset) > Unix(now) THEN 0 ELSE 1

\* What a call with locals l returned: the operation, the error, the commands
\* that wrote, the most connections it held at a time (extra: those of the
\* reset reconciliation), the connections it holds after the return, and the
\* error of updateOldReset that Add did not look at.
Result(op, err, l, extra) ==
    [op |-> op, err |-> err, wrote |-> l.wrote, peak |-> l.conns + extra,
     open |-> Close(l.conns), dropped |-> nil]

\* updateOldReset that takes the reply of PTTL for seconds.
updateOldResetSeconds(b) ==
    IF Unix(b.reset) > Unix(now) THEN b
    ELSE [b EXCEPT !.reset = now + PTTL(b.name) * Second]

\* updateOldReset without its guard.
updateOldResetAlways(b) == [b EXCEPT !.reset = now + PTTL(b.name) * millisecond]

\* redis.bucket.updateOldReset: the guard, then PTTL.
updateOldReset(b) ==
    IF Unix(b.reset) > Unix(now) THEN b
    ELSE [b EXCEPT !.reset = now + PTTL(b.name) * millisecond]

\* redis.Storage.Create, the bucket of a key that does not exist.
FreshBucket(name, capacity, rate) ==
    [name |-> name, capacity |-> capacity, remaining |-> capacity,
     reset |-> now + rate, rate |-> rate]

\* A bucket of an existing key that takes its capacity from the counter.
ExistingBucketOfCounter(name, capacity, rate, num, ttl) ==
    [name |-> name, capacity |-> num, remaining |-> 0,
     reset |-> now + ttl * millisecond, rate |-> rate]

\* redis.Storage.Create, the bucket of a key that exists.
ExistingBucket(name, capacity, rate, num, ttl) ==
    [name |-> name, capacity |-> capacity,
     remaining |-> capacity - min(capacity, num),
     reset |-> now + ttl * millisecond, rate |-> rate]

\* redis.Storage.Create: GET, and the bucket of a key that does not exist.
RedisCreate(p, name, capacity, rate) ==
    /\ pc[p] = "idle"
    /\ sh[p] = NoBucket
    /\ IF GET(name) = -1
       THEN /\ sh' = [sh EXCEPT ![p] = FreshBucket(name, capacity, rate)]
            /\ res' = [res EXCEPT ![p] =
                          Result("Create", nil, [NoLocals EXCEPT !.conns = 1], 0)]
            /\ UNCHANGED callvars
       ELSE /\ pc' = [pc EXCEPT ![p] = "create_pttl"]
            /\ loc' = [loc EXCEPT ![p] = [NoLocals EXCEPT !.name = name,
                                             !.capacity = capacity, !.rate = rate,
                                             !.num = GET(name), !.conns = 1]]
            /\ UNCHANGED <<sh, res>>
    /\ hist' = [hist EXCEPT !.made[p] = [capacity |-> capacity, rate |-> rate,
                                          found |-> GET(name) # -1]]

\* redis.bucket.Add: GET and the quota check.
RedisAddGet(p, amount) ==
    /\ pc[p] = "idle"
    /\ sh[p] # NoBucket
    /\ LET b == sh[p]
           count == GET(b.name)
           remaining == IF count = -1 THEN b.capacity ELSE Project(b.capacity, count)
       IN  /\ sh' = [sh EXCEPT ![p].remaining = remaining]
           /\ pc' = [pc EXCEPT ![p] = IF Full(amount, remaining)
                                      THEN "add_full" ELSE "add_incrby"]
           /\ loc' = [loc EXCEPT ![p] = [NoLocals EXCEPT !.amount = amount,
                                                          !.conns = 1]]
           /\ res' = [res EXCEPT ![p] = NoResult]

\* redis.Storage.Create
RCreate(p, name, capacity, rate) ==
    /\ mode \in {"redis", "faulty", "errors"}
    /\ RedisCreate(p, name, capacity, rate)
    /\ UNCHANGED <<clockvars, memvars, store>>

\* redis.Storage.Create: PTTL, and the bucket of a key that exists.
RCreatePttl(p) ==
    /\ pc[p] = "create_pttl"
    /\ sh' = [sh EXCEPT ![p] = ExistingBucket(loc[p].name, loc[p].capacity,
                                              loc[p].rate, loc[p].num,
                                              PTTL(loc[p].name))]
    /\ pc' = [pc EXCEPT ![p] = "idle"]
    /\ loc' = [loc EXCEPT ![p] = NoLocals]
    /\ res' = [res EXCEPT ![p] = Result("Create", nil, loc[p], 0)]
    /\ UNCHANGED <<clockvars, memvars, store, hist>>

\* redis.bucket.Add: GET and the quota check.
RAddGet(p, amount) ==
    /\ mode \in {"redis", "faulty", "errors"}
    /\ RedisAddGet(p, amount)
    /\ UNCHANGED <<clockvars, memvars, store, hist>>

\* redis.bucket.Add: the bucket is full.
RAddFull(p) ==
    /\ pc[p] = "add_full"
    /\ sh' = [sh EXCEPT ![p] = updateOldReset(sh[p])]
    /\ pc' = [pc EXCEPT ![p] = "idle"]
    /\ res' = [res EXCEPT ![p] = Result("Add", ErrorFull, loc[p], Borrowed(sh[p]))]
    /\ loc' = [loc EXCEPT ![p] = NoLocals]
    /\ UNCHANGED <<clockvars, memvars, store, hist>>

\* redis.bucket.Add: INCRBY. The command overlaps with the Add of every other
\* process that has read the counter of the key and not yet incremented it.
RAddIncrby(p) ==
    /\ pc[p] = "add_incrby"
    /\ LET n == sh[p].name
           k == INCRBY(n, loc[p].amount)
       IN  /\ store' = [store EXCEPT ![n] = k]
           /\ loc' = [loc EXCEPT ![p].num = k.val, ![p].wrote = 1,
                                 ![p].counted = TRUE,
                                 ![p].created = ~store[n].live]
           /\ pc' = [pc EXCEPT ![p] = IF FirstWrite(k.val, loc[p].amount)
                                      THEN "add_pexpire" ELSE "add_reset"]
           /\ hist' = [hist EXCEPT !.overlap[n] =
                          @ \/ (/\ mode = "redis"
                                /\ \E q \in Procs \ {p} :
                                       pc[q] = "add_incrby" /\ sh[q].name = n)]
    /\ UNCHANGED <<clockvars, memvars, sh, res>>

\* redis.bucket.Add: PEXPIRE after the first write.
RAddPexpire(p) ==
    /\ pc[p] = "add_pexpire"
    /\ store' = [store EXCEPT ![sh[p].name] = PEXPIRE(sh[p].name, expiry(sh[p].rate))]
    /\ loc' = [loc EXCEPT ![p].wrote = 2]
    /\ pc' = [pc EXCEPT ![p] = "add_reset"]
    /\ UNCHANGED <<clockvars, memvars, sh, res, hist>>

\* redis.bucket.Add: the reset is reconciled and the state returned.
RAddReset(p) ==
    /\ pc[p] = "add_reset"
    /\ LET b == updateOldReset(sh[p])
       IN  sh' = [sh EXCEPT ![p] = [b EXCEPT !.remaining =
                                        Project(b.capacity, loc[p].num)]]
    /\ pc' = [pc EXCEPT ![p] = "idle"]
    /\ res' = [res EXCEPT ![p] = Result("Add", nil, loc[p], Borrowed(sh[p]))]
    /\ hist' = [hist EXCEPT !.sum[sh[p].name] =
                   IF loc[p].counted THEN @ + loc[p].amount ELSE @]
    /\ loc' = [loc EXCEPT ![p] = NoLocals]
    /\ UNCHANGED <<clockvars, memvars, store>>

\* ----------------------------------------------------------------- faults
\* What becomes of key n when the Add of p ends between INCRBY and PEXPIRE:
\* nothing to record when the INCRBY of p found the key, else the key was
\* created with amount zero ("zero"), or with a positive amount while it has
\* an expiry or another Add has a PEXPIRE outstanding for it ("shared"), or
\* with a positive amount and nothing else outstanding ("positive").
Orphaned(p, n) ==
    IF ~loc[p].created THEN hist.orphan[n]
    ELSE IF loc[p].amount = 0 THEN "zero"
    ELSE IF \/ store[n].exp # NoExpiry
            \/ \E q \in Procs \ {p} : pc[q] = "add_pexpire" /\ sh[q].name = n
         THEN "shared"
    ELSE "positive"

\* redis.bucket.Add: the process stops between INCRBY and PEXPIRE.
RAddStop(p) ==
    /\ mode = "faulty"
    /\ pc[p] = "add_pexpire"
    /\ pc' = [pc EXCEPT ![p] = "stopped"]
    /\ hist' = [hist EXCEPT !.orphan[sh[p].name] = Orphaned(p, sh[p].name)]
    /\ UNCHANGED <<clockvars, memvars, redisvars, loc>>

\* redis.bucket.Add: PEXPIRE returns an error, and Add returns it.
RAddPexpireError(p) ==
    /\ mode \in {"faulty", "errors"}
    /\ pc[p] = "add_pexpire"
    /\ pc' = [pc EXCEPT ![p] = "idle"]
    /\ res' = [res EXCEPT ![p] = Result("Add", ErrorIO, loc[p], 0)]
    /\ hist' = [hist EXCEPT !.orphan[sh[p].name] = Orphaned(p, sh[p].name),
                            !.failed[sh[p].name] =
                                IF loc[p].counted THEN @ + loc[p].amount ELSE @]
    /\ loc' = [loc EXCEPT ![p] = NoLocals]
    /\ UNCHANGED <<clockvars, memvars, store, sh>>

\* redis.Storage.Create: GET returns an error, or a value that is no number.
RCreateGetError(p, name) ==
    /\ mode = "errors"
    /\ pc[p] = "idle"
    /\ sh[p] = NoBucket
    /\ res' = [res EXCEPT ![p] =
                  Result("Create", ErrorIO, [NoLocals EXCEPT !.conns = 1], 0)]
    /\ UNCHANGED <<clockvars, memvars, store, sh, callvars, hist>>

\* redis.Storage.Create: PTTL returns an error.
RCreatePttlError(p) ==
    /\ mode = "errors"
    /\ pc[p] = "create_pttl"
    /\ pc' = [pc EXCEPT ![p] = "idle"]
    /\ res' = [res EXCEPT ![p] = Result("Create", ErrorIO, loc[p], 0)]
    /\ loc' = [loc EXCEPT ![p] = NoLocals]
    /\ hist' = [hist EXCEPT !.made[p] = NoArgs]
    /\ UNCHANGED <<clockvars, memvars, store, sh>>

\* redis.bucket.Add: GET returns an error, or a value that is no number.
RAddGetError(p, amount) ==
    /\ mode = "errors"
    /\ pc[p] = "idle"
    /\ sh[p] # NoBucket
    /\ res' = [res EXCEPT ![p] =
                  Result("Add", ErrorIO, [NoLocals EXCEPT !.conns = 1], 0)]
    /\ UNCHANGED <<clockvars, memvars, store, sh, callvars, hist>>

\* redis.bucket.Add: INCRBY returns an error.
RAddIncrbyError(p) ==
    /\ mode = "errors"
    /\ pc[p] = "add_incrby"
    /\ pc' = [pc EXCEPT ![p] = "idle"]
    /\ res' = [res EXCEPT ![p] = Result("Add", ErrorIO, loc[p], 0)]
    /\ loc' = [loc EXCEPT ![p] = NoLocals]
    /\ UNCHANGED <<clockvars, memvars, store, sh, hist>>

\* redis.bucket.Add: the bucket is full, and the PTTL of updateOldReset
\* returns an error, which Add ignores.
RAddFullPttlError(p) ==
    /\ mode = "errors"
    /\ pc[p] = "add_full"
    /\ Borrowed(sh[p]) = 1
    /\ pc' = [pc EXCEPT ![p] = "idle"]
    /\ res' = [res EXCEPT ![p] =
                  [Result("Add", ErrorFull, loc[p], 1) EXCEPT !.dropped = ErrorIO]]
    /\ loc' = [loc EXCEPT ![p] = NoLocals]
    /\ UNCHANGED <<clockvars, memvars, store, sh, hist>>

\* redis.bucket.Add: the PTTL of updateOldReset returns an error, which Add
\* ignores, and the state is returned.
RAddResetPttlError(p) ==
    /\ mode \in {"errors", "redis"}
    /\ pc[p] = "add_reset"
    /\ Borrowed(sh[p]) = 1
    /\ sh' = [sh EXCEPT ![p].remaining = Project(sh[p].capacity, loc[p].num)]
    /\ pc' = [pc EXCEPT ![p] = "idle"]
    /\ res' = [res EXCEPT ![p] =
                  [Result("Add", nil, loc[p], 1) EXCEPT !.dropped = ErrorIO]]
    /\ hist' = [hist EXCEPT !.sum[sh[p].name] =
                   IF loc[p].counted THEN @ + loc[p].amount ELSE @]
    /\ loc' = [loc EXCEPT ![p] = NoLocals]
    /\ UNCHANGED <<clockvars, memvars, store>>

\* ------------------------------------------------------------ one caller
\* The caller creates the bucket of one name in both backends.
EqCreate(name, capacity, rate) ==
    /\ mode = "both"
    /\ MemCreate(1, name, capacity, rate)
    /\ RedisCreate(1, name, capacity, rate)
    /\ UNCHANGED <<clockvars, store>>

\* The caller adds the same amount to both buckets: the Add of the memory
\* backend, and the first step of the Add of the redis backend.
EqAdd(amount) ==
    /\ mode = "both"
    /\ MemAdd(1, amount)
    /\ RedisAddGet(1, amount)
    /\ hist' = [hist EXCEPT !.ended = @ \/ After(now, heap[mh[1].obj].reset)]
    /\ UNCHANGED <<clockvars, store>>

\* ------------------------------------------------------------------ clock
TickBound == IF mode \in {"redis", "faulty", "unsync"} THEN RedisTicks ELSE MaxTicks
TickSteps == IF mode \in {"memory", "both"} THEN Steps ELSE RedisSteps

\* time.Now advances; the server drops the keys whose expiry has passed. The
\* single caller of both backends is between two calls.
Tick(d) ==
    /\ ticks < TickBound
    /\ d \in TickSteps
    /\ mode = "both" => \A p \in Procs : pc[p] = "idle"
    /\ now' = now + d
    /\ ticks' = ticks + 1
    /\ last' = NoCall
    /\ res' = [p \in Procs |-> NoResult]
    /\ store' = [n \in Names |-> IF Expired(store[n], now + d) THEN NoKey ELSE store[n]]
    /\ loc' = [p \in Procs |->
                 IF sh[p] # NoBucket /\ Expired(store[sh[p].name], now + d)
                 THEN [loc[p] EXCEPT !.counted = FALSE, !.created = FALSE]
                 ELSE loc[p]]
    /\ hist' = [hist EXCEPT
                  !.sum = [n \in Names |->
                             IF Expired(store[n], now + d) THEN 0 ELSE @[n]],
                  !.failed = [n \in Names |->
                             IF Expired(store[n], now + d) THEN 0 ELSE @[n]],
                  !.orphan = [n \in Names |->
                             IF Expired(store[n], now + d) THEN "no" ELSE @[n]],
                  !.overlap = [n \in Names |->
                             IF Expired(store[n], now + d) THEN FALSE ELSE @[n]],
                  !.ended = @ \/ (mode = "both" /\ \E n \in Names :
                                                      Expired(store[n], now + d))]
    /\ UNCHANGED <<mode, heap, buckets, mh, acc, sh, pc>>

\* ---------------------------------------------------------- specification
Start(modes) ==
    /\ mode \in modes
    /\ now = 0
    /\ ticks = 0
    /\ heap = <<>>
    /\ buckets = [n \in Names |-> 0]
    /\ mh = [p \in Procs |-> NoHandle]
    /\ acc = <<>>
    /\ last = NoCall
    /\ store = [n \in Names |-> NoKey]
    /\ sh = [p \in Procs |-> NoBucket]
    /\ pc = [p \in Procs |-> "idle"]
    /\ loc = [p \in Procs |-> NoLocals]
    /\ res = [p \in Procs |-> NoResult]
    /\ hist = [sum |-> [n \in Names |-> 0],
               failed |-> [n \in Names |-> 0],
               orphan |-> [n \in Names |-> "no"],
               overlap |-> [n \in Names |-> FALSE],
               torn |-> {},
               made |-> [p \in Procs |-> NoArgs],
               ended |-> FALSE]

\* The memory backend with serialized calls, or the redis backend.
Init == Start({"memory", "redis"})

Next ==
    \/ \E p \in Procs, n \in Names, a \in Args : Create(p, n, a[1], a[2])
    \/ \E p \in Procs, a \in Amounts : Add(p, a)
    \/ \E p \in Replayers, a \in Amounts, o \in Offsets : AddWithTime(p, a, now + o)
    \/ \E n \in Names : Clean(n)
    \/ \E p \in Procs, n \in Keys, a \in Args : RCreate(p, n, a[1], a[2])
    \/ \E p \in Procs : RCreatePttl(p)
    \/ \E p \in Procs, a \in Amounts : RAddGet(p, a)
    \/ \E p \in Procs : RAddFull(p)
    \/ \E p \in Procs : RAddIncrby(p)
    \/ \E p \in Procs : RAddPexpire(p)
    \/ \E p \in Procs : RAddReset(p)
    \/ \E d \in Steps \cup RedisSteps : Tick(d)

Spec == Init /\ [][Next]_vars

\* The memory backend called by two goroutines without synchronization, the
\* memory backend with serialized Create, Add and Clean, or the redis backend.
InitConc == Start({"unsync", "memory", "redis"})

NextConc ==
    \/ \E p \in Procs, n \in Keys, a \in Args : Create(p, n, a[1], a[2])
    \/ \E p \in Procs, a \in Amounts : Add(p, a)
    \/ \E n \in Keys : Clean(n)
    \/ \E p \in Procs, n \in Keys, a \in Args : CreateLookup(p, n, a[1], a[2])
    \/ \E p \in Procs : CreateInsert(p)
    \/ \E p \in Procs : CreateFault(p)
    \/ \E p \in Procs, t \in [Names -> 0..Cardinality(Procs)] : CreateInsertTorn(p, t)
    \/ \E p \in Procs, a \in Amounts : AddUpdated(p, a)
    \/ \E p \in Procs : AddAfter(p)
    \/ \E p \in Procs : AddReset(p)
    \/ \E p \in Procs : AddRefill(p)
    \/ \E p \in Procs : AddCheck(p)
    \/ \E p \in Procs : AddLoad(p)
    \/ \E p \in Procs : AddStore(p)
    \/ \E p \in Procs, n \in Keys, a \in Args : RCreate(p, n, a[1], a[2])
    \/ \E p \in Procs : RCreatePttl(p)
    \/ \E p \in Procs, a \in Amounts : RAddGet(p, a)
    \/ \E p \in Procs : RAddFull(p)
    \/ \E p \in Procs : RAddIncrby(p)
    \/ \E p \in Procs : RAddPexpire(p)
    \/ \E p \in Procs : RAddReset(p)
    \/ \E d \in Steps \cup RedisSteps : Tick(d)

SpecConc == InitConc /\ [][NextConc]_vars

\* The redis backend with a process that stops and a PEXPIRE that fails.
InitFail == Start({"faulty"})

NextFail ==
    \/ \E p \in Procs, n \in Keys, a \in Args : RCreate(p, n, a[1], a[2])
    \/ \E p \in Procs : RCreatePttl(p)
    \/ \E p \in Procs, a \in Amounts : RAddGet(p, a)
    \/ \E p \in Procs : RAddFull(p)
    \/ \E p \in Procs : RAddIncrby(p)
    \/ \E p \in Procs : RAddPexpire(p)
    \/ \E p \in Faulty : RAddStop(p)
    \/ \E p \in Faulty : RAddPexpireError(p)
    \/ \E p \in Procs : RAddReset(p)
    \/ \E d \in Steps \cup RedisSteps : Tick(d)

SpecFail == InitFail /\ [][NextFail]_vars

\* The redis backend with commands that return errors; the clock stands still.
InitErr == Start({"errors"})

NextErr ==
    \/ \E p \in Procs, n \in Keys, a \in Args : RCreate(p, n, a[1], a[2])
    \/ \E p \in Procs : RCreatePttl(p)
    \/ \E p \in Procs, a \in Amounts : RAddGet(p, a)
    \/ \E p \in Procs : RAddFull(p)
    \/ \E p \in Procs : RAddIncrby(p)
    \/ \E p \in Procs : RAddPexpire(p)
    \/ \E p \in Procs : RAddReset(p)
    \/ \E p \in Faulty, n \in Keys : RCreateGetError(p, n)
    \/ \E p \in Faulty : RCreatePttlError(p)
    \/ \E p \in Faulty, a \in Amounts : RAddGetError(p, a)
    \/ \E p \in Faulty : RAddIncrbyError(p)
    \/ \E p \in Faulty : RAddPexpireError(p)
    \/ \E p \in Faulty : RAddFullPttlError(p)
    \/ \E p \in Faulty : RAddResetPttlError(p)

SpecErr == InitErr /\ [][NextErr]_vars

\* The redis backend with a clock, and a PTTL of the reset reconciliation
\* that can return an error.
InitDrop == Start({"redis"})

NextDrop ==
    \/ \E p \in Procs, n \in Keys, a \in Args : RCreate(p, n, a[1], a[2])
    \/ \E p \in Procs : RCreatePttl(p)
    \/ \E p \in Procs, a \in Amounts : RAddGet(p, a)
    \/ \E p \in Procs : RAddFull(p)
    \/ \E p \in Procs : RAddIncrby(p)
    \/ \E p \in Procs : RAddPexpire(p)
    \/ \E p \in Procs : RAddReset(p)
    \/ \E p \in Faulty : RAddResetPttlError(p)
    \/ \E d \in Steps \cup RedisSteps : Tick(d)

SpecDrop == InitDrop /\ [][NextDrop]_vars

\* One caller that makes the same calls on both backends.
InitEq == Start({"both"})

NextEq ==
    \/ \E n \in Keys, a \in Args : EqCreate(n, a[1], a[2])
    \/ \E a \in Amounts : EqAdd(a)
    \/ RAddFull(1)
    \/ RAddIncrby(1)
    \/ RAddPexpire(1)
    \/ RAddReset(1)
    \/ \E d \in Steps \cup RedisSteps : Tick(d)

SpecEq == InitEq /\ [][NextEq]_vars

\* ------------------------------------------------------------------ claims
Objs == 1..Len(heap)
Held == {p \in Procs : sh[p] # NoBucket}

\* C1: every bucket keeps 0 <= remaining <= capacity and the capacity it was
\* made with: the structs of the memory backend after any sequence of Create,
\* Add, AddWithTime and Clean, and the buckets of the redis backend in every
\* interleaving of Create and Add, also when the counter has passed capacity.
C1_RemainingWithinCapacity ==
    /\ \A o \in Objs :
          /\ 0 <= heap[o].remaining
          /\ heap[o].remaining <= heap[o].capacity
          /\ heap[o].capacity = acc[o].made
    /\ \A p \in Held :
          /\ 0 <= sh[p].remaining
          /\ sh[p].remaining <= sh[p].capacity
          /\ sh[p].capacity = hist.made[p].capacity

\* C1 witness: an Add of the redis backend returned nil while the counter is
\* past the capacity of its bucket.
C1_Witness ==
    \E p \in Held :
        /\ res[p].op = "Add" /\ res[p].err = nil /\ pc[p] = "idle"
        /\ store[sh[p].name].live
        /\ store[sh[p].name].val > sh[p].capacity
        /\ sh[p].remaining = 0

\* C2 as stated: memory backend, remaining plus the amounts accepted since
\* reset last changed (rollover or realignment) equals capacity.
C2_SinceResetChanged ==
    \A o \in Objs : heap[o].remaining + acc[o].moved = heap[o].capacity

\* C2 amended: memory backend, remaining plus the amounts accepted since
\* creation or the last rollover equals capacity; a realignment by AddWithTime
\* changes reset without refilling, and the amounts accepted before it still
\* count.
C2_SinceRefill ==
    \A o \in Objs : heap[o].remaining + acc[o].refill = heap[o].capacity

\* C2 witness: a struct that accepted an amount and was realigned afterwards.
C2_Witness ==
    \E o \in Objs : acc[o].refill > 0 /\ acc[o].moved < acc[o].refill

\* C3: an Add that returns ErrorFull consumes nothing. Memory backend: the
\* remaining it leaves is the remaining after the window logic. Redis backend:
\* the call issued no INCRBY and no PEXPIRE, its last step leaves the server
\* as it is and returns the remaining projected after GET.
C3_FullConsumesNothing ==
    /\ [](\A p \in Held : res[p].err = ErrorFull => res[p].wrote = 0)
    /\ [][/\ (last'.op = "Add" /\ last'.err = ErrorFull) =>
                 heap'[last'.obj].remaining
                     = (IF now > heap[last'.obj].reset
                        THEN heap[last'.obj].capacity
                        ELSE heap[last'.obj].remaining)
          /\ (last'.op = "AddWithTime" /\ last'.err = ErrorFull) =>
                 heap'[last'.obj].remaining
                     \in {heap[last'.obj].capacity, heap[last'.obj].remaining}
          /\ \A p \in Procs :
                 (pc[p] = "add_full" /\ pc'[p] = "idle") =>
                     /\ store' = store
                     /\ res'[p].err = ErrorFull
                     /\ sh'[p].remaining = sh[p].remaining]_vars

\* C3 witness: an Add of the memory backend returned ErrorFull on a struct that
\* still has quota.
C3_Witness ==
    /\ last.op = "Add" /\ last.err = ErrorFull
    /\ heap[last.obj].remaining > 0

\* C4 as stated: memory backend, an Add(k) with k <= capacity at a time
\* now >= reset succeeds with remaining = capacity - k and reset = now + rate.
C4_RolloverAtOrAfterReset ==
    [][(/\ last'.op = "Add"
        /\ now >= heap[last'.obj].reset
        /\ last'.amount <= heap[last'.obj].capacity)
       => /\ last'.err = nil
          /\ heap'[last'.obj].remaining = heap[last'.obj].capacity - last'.amount
          /\ heap'[last'.obj].reset = now + heap[last'.obj].rate]_vars

\* C4 amended: memory backend, an Add(k) with k <= capacity at a time
\* now > reset (strictly after: at now = reset the window has not rolled over)
\* succeeds with remaining = capacity - k and reset = now + rate, whatever
\* remaining was before.
C4_RolloverAfterReset ==
    [][(/\ last'.op = "Add"
        /\ now > heap[last'.obj].reset
        /\ last'.amount <= heap[last'.obj].capacity)
       => /\ last'.err = nil
          /\ heap'[last'.obj].remaining = heap[last'.obj].capacity - last'.amount
          /\ heap'[last'.obj].reset = now + heap[last'.obj].rate]_vars

\* C4 witness: an Add rolled the window of a drained struct over and took its
\* amount from the refilled quota.
C4_Witness ==
    /\ last.op = "Add" /\ last.moved /\ last.err = nil /\ last.amount > 0
    /\ acc[last.obj].refill = last.amount
    /\ heap[last.obj].remaining = heap[last.obj].capacity - last.amount

\* C5 as stated: one caller, the same Create and the same Adds on a memory
\* bucket and on a redis bucket whose key was absent: every Add returns the
\* same remaining and the same error from both.
C5_SameResults ==
    (mode = "both" /\ pc[1] = "idle" /\ last.op = "Add" /\ res[1].op = "Add")
        => /\ last.err = res[1].err
           /\ heap[last.obj].remaining = sh[1].remaining

\* C5 amended: the two buckets return the same remaining and the same error
\* for every Add made while the first window of both is open: no Add found
\* the clock after the reset of the memory bucket, and the key has not
\* expired. Afterwards they can differ: the window of the memory bucket runs
\* from Create, that of the redis bucket from the first write of the key.
C5_SameResultsInFirstWindow ==
    (mode = "both" /\ pc[1] = "idle" /\ last.op = "Add" /\ res[1].op = "Add"
     /\ ~hist.ended)
        => /\ last.err = res[1].err
           /\ heap[last.obj].remaining = sh[1].remaining

\* C5 witness: after an accepted Add and a step of the clock, both buckets
\* refuse an Add with ErrorFull and report the same remaining.
C5_Witness ==
    /\ mode = "both" /\ pc[1] = "idle" /\ ~hist.ended /\ ticks > 0
    /\ last.op = "Add" /\ last.err = ErrorFull
    /\ res[1].op = "Add" /\ res[1].err = ErrorFull
    /\ sh[1].remaining < sh[1].capacity
    /\ heap[last.obj].remaining = sh[1].remaining

\* C6 as stated: redis backend, when an Add ends between the INCRBY that
\* created the key and its PEXPIRE (the process stops, or PEXPIRE fails), the
\* key stays without expiry from then on.
C6_OrphanKeepsNoExpiry ==
    \A n \in Keys :
        hist.orphan[n] # "no" => (store[n].live /\ store[n].exp = NoExpiry)

\* C6 amended: redis backend, when an Add of a positive amount ends between
\* the INCRBY that created the key and its PEXPIRE, and no other Add has a
\* PEXPIRE outstanding for the key, the key stays without expiry and its
\* counter never decreases; every Add of an amount >= 1 that starts when the
\* counter is at or past the capacity of its bucket ends in ErrorFull. (A key
\* created with amount 0 gets an expiry from the next Add of a positive
\* amount.)
C6_PositiveOrphanKeepsNoExpiry ==
    /\ [](\A n \in Keys :
            hist.orphan[n] = "positive" =>
                (store[n].live /\ store[n].exp = NoExpiry /\ store[n].val >= 1))
    /\ [][\A n \in Keys :
            hist.orphan[n] = "positive" =>
                /\ hist'.orphan[n] = "positive"
                /\ store'[n].val >= store[n].val
                /\ \A p \in Procs :
                      (/\ pc[p] = "idle"
                       /\ pc'[p] \in {"add_full", "add_incrby"}
                       /\ sh[p].name = n
                       /\ loc'[p].amount >= 1
                       /\ store[n].val >= sh[p].capacity)
                      => pc'[p] = "add_full"]_vars

\* C6 witness: after the Add that created the key with a positive amount
\* ended before its PEXPIRE and the clock advanced, an Add returned ErrorFull.
C6_Witness ==
    \E p \in Held :
        /\ hist.orphan[sh[p].name] = "positive"
        /\ ticks > 0
        /\ res[p].op = "Add" /\ res[p].err = ErrorFull
        /\ store[sh[p].name].exp = NoExpiry
        /\ store[sh[p].name].val >= sh[p].capacity

\* No Add is in flight.
Quiet == \A p \in Procs : pc[p] = "idle"

\* C7 as stated: redis backend, when no Add is in flight the counter of a
\* live key is the sum of the amounts of the Adds that returned without error
\* since the key was created.
C7_CounterIsSumOfAccepted ==
    \A n \in Keys :
        (Quiet /\ store[n].live) => store[n].val = hist.sum[n]

\* C7 amended: redis backend, when no Add is in flight the counter of a live
\* key is the sum of the amounts of the Adds whose INCRBY ran since the key
\* was created: those that returned without error, and those that returned
\* the error of a failed PEXPIRE after their INCRBY. An Add that returned
\* ErrorFull issued no INCRBY.
C7_CounterIsSumOfIncrements ==
    /\ \A n \in Keys :
          (Quiet /\ store[n].live) => store[n].val = hist.sum[n] + hist.failed[n]
    /\ \A p \in Held : res[p].err = ErrorFull => res[p].wrote = 0

\* C7 witness: a key that counts the amount of an Add that returned the error
\* of PEXPIRE and the amount of an Add that returned without error.
C7_Witness ==
    \E n \in Keys :
        /\ Quiet /\ store[n].live
        /\ hist.failed[n] > 0 /\ hist.sum[n] > 0
        /\ store[n].val = hist.sum[n] + hist.failed[n]

\* The processes that hold a bucket of name n in the redis backend.
Holders(n) == {p \in Held : sh[p].name = n}
SameCapacity(n) == \A p, q \in Holders(n) : sh[p].capacity = sh[q].capacity

\* C8 as stated: redis backend, processes that hold buckets of one name and
\* one capacity and add in any interleaving: the counter and the sum of the
\* accepted amounts of a window never pass the capacity.
C8_NeverPastCapacity ==
    \A n \in Keys : \A p \in Holders(n) :
        (SameCapacity(n) /\ store[n].live) =>
            /\ store[n].val <= sh[p].capacity
            /\ hist.sum[n] <= sh[p].capacity

\* C8 amended: redis backend, processes that hold buckets of one name and one
\* capacity: as long as no INCRBY ran while another Add was between its GET and
\* its INCRBY, the counter and the sum of the accepted amounts of a window do
\* not pass the capacity; when Adds overlap they can, and the counter stays
\* within the capacity times the number of processes.
C8_PastCapacityOnlyByOverlap ==
    \A n \in Keys : \A p \in Holders(n) :
        (SameCapacity(n) /\ store[n].live) =>
            /\ ~hist.overlap[n] =>
                  /\ store[n].val <= sh[p].capacity
                  /\ hist.sum[n] <= sh[p].capacity
            /\ store[n].val <= Cardinality(Holders(n)) * sh[p].capacity

\* C8 witness: two processes with buckets of one capacity whose Adds
\* overlapped, and a counter past the capacity.
C8_Witness ==
    \E n \in Keys : \E p \in Holders(n) :
        /\ Cardinality(Holders(n)) = 2 /\ SameCapacity(n)
        /\ hist.overlap[n] /\ Quiet
        /\ store[n].live /\ store[n].val > sh[p].capacity
        /\ hist.sum[n] > sh[p].capacity

\* The goroutines that hold a bucket of the memory backend.
MemHeld == {p \in Procs : mh[p] # NoHandle}

\* C9 as stated: Create calls for one name, also concurrent ones, return
\* handles of the same underlying bucket.
C9_SameUnderlyingBucket ==
    \A p, q \in MemHeld : mh[p].name = mh[q].name => mh[p].obj = mh[q].obj

\* C9 amended: memory backend, a Create for a name that is in the table
\* returns the struct of the table, so Create calls for one name return the
\* same struct unless they overlap with another Create or Clean evicted the
\* name between them: two goroutines that overlap in Create can both miss the
\* name and get two structs with independent remaining, and the runtime can
\* end the process for the concurrent use of the table (it is ended only when
\* Creates overlapped); after an eviction the next Create makes a new struct
\* and the earlier handle keeps the evicted one. Redis backend: every Add
\* projects its remaining from the one counter of the name, which holds the
\* increments of every handle; the remaining a handle caches is refreshed by
\* its own Adds only.
C9_SameBucketUnlessOverlap ==
    /\ [](\A p, q \in MemHeld :
            (/\ mh[p].name = mh[q].name /\ ~hist.overlap[mh[p].name]
             /\ mh[p].obj < mh[q].obj)
                => /\ mode = "memory"
                   /\ buckets[mh[p].name] # mh[p].obj)
    /\ [][\A p \in Procs :
            (/\ pc[p] = "idle" /\ mh[p] = NoHandle /\ mh'[p] # NoHandle
             /\ buckets[mh'[p].name] # 0)
                => mh'[p].obj = buckets[mh'[p].name]]_vars
    /\ []((\E p \in Procs : pc[p] = "dead") => \A n \in Names : hist.overlap[n])
    /\ [][\A p \in Procs :
            (pc[p] = "idle" /\ pc'[p] \in {"add_full", "add_incrby"}) =>
                sh'[p].remaining =
                    sh[p].capacity
                    - min(sh[p].capacity,
                          IF store[sh[p].name].live THEN store[sh[p].name].val ELSE 0)]_vars

\* C9 witness: two goroutines without synchronization whose Create calls did
\* not overlap hold the same struct, and an Add through one of the handles
\* took from its quota.
C9_Witness ==
    \E p, q \in MemHeld :
        /\ mode = "unsync"
        /\ p # q /\ mh[p].name = mh[q].name /\ mh[p].obj = mh[q].obj
        /\ ~hist.overlap[mh[p].name]
        /\ heap[mh[p].obj].remaining < heap[mh[p].obj].capacity

\* C10 as stated: redis backend, the bucket of a Create that found the key has
\* the capacity and the rate of the bucket that exists under the name.
C10_ExistingCapacityWins ==
    \A p, q \in Held :
        (hist.made[p].found /\ ~hist.made[q].found /\ sh[p].name = sh[q].name)
            => (sh[p].capacity = sh[q].capacity /\ sh[p].rate = sh[q].rate)

\* C10 amended: redis backend, the bucket of a Create that found the key has
\* the capacity and the rate of the arguments of that Create (the server
\* stores neither); only the counter and the time to live come from the key,
\* so the buckets of one name can differ in capacity and rate.
C10_ArgumentsApplied ==
    \A p \in Held :
        hist.made[p].found =>
            /\ sh[p].capacity = hist.made[p].capacity
            /\ sh[p].rate = hist.made[p].rate

\* C10 witness: a Create found the key another bucket wrote and returned a
\* bucket of another capacity, and an Add through it returned.
C10_Witness ==
    \E p, q \in Held :
        /\ hist.made[p].found /\ ~hist.made[q].found
        /\ sh[p].name = sh[q].name
        /\ sh[p].capacity # sh[q].capacity
        /\ res[p].op = "Add" /\ pc[p] = "idle"

\* C11: in either backend an Add of the whole capacity on a bucket with no
\* prior state succeeds and leaves remaining 0, and every Add of an amount
\* >= 1 made on the drained bucket before its window ends returns ErrorFull and
\* leaves remaining 0. Memory backend: the bucket is full and the window has
\* not ended while now <= reset. Redis backend: the bucket has no prior state
\* when GET finds no key, and the window lasts while the key is live.
C11_RoundTrip ==
    [][/\ (/\ last'.op = "Add"
           /\ last'.amount = heap[last'.obj].capacity
           /\ heap[last'.obj].remaining = heap[last'.obj].capacity)
          => (last'.err = nil /\ heap'[last'.obj].remaining = 0)
       /\ (/\ last'.op = "Add"
           /\ last'.amount >= 1
           /\ heap[last'.obj].remaining = 0
           /\ now <= heap[last'.obj].reset)
          => (last'.err = ErrorFull /\ heap'[last'.obj].remaining = 0)
       /\ \A p \in Procs :
             /\ (/\ pc[p] = "idle" /\ pc'[p] \in {"add_full", "add_incrby"}
                 /\ ~store[sh[p].name].live
                 /\ loc'[p].amount = sh[p].capacity)
                => pc'[p] = "add_incrby"
             /\ (/\ pc[p] = "add_reset" /\ pc'[p] = "idle"
                 /\ loc[p].amount = sh[p].capacity)
                => (res'[p].err = nil /\ sh'[p].remaining = 0)
             /\ (/\ pc[p] = "idle" /\ pc'[p] \in {"add_full", "add_incrby"}
                 /\ store[sh[p].name].live
                 /\ store[sh[p].name].val >= sh[p].capacity
                 /\ loc'[p].amount >= 1)
                => (pc'[p] = "add_full" /\ sh'[p].remaining = 0)
             /\ (pc[p] = "add_full" /\ pc'[p] = "idle")
                => (res'[p].err = ErrorFull
                    /\ sh'[p].remaining = sh[p].remaining)]_vars

\* C11 witness: a redis bucket whose first Add took the whole capacity from an
\* absent key refused the next Add, made while the key is live, with
\* ErrorFull and remaining 0.
C11_Witness ==
    \E p \in Held :
        /\ pc[p] = "idle" /\ res[p].op = "Add" /\ res[p].err = ErrorFull
        /\ sh[p].remaining = 0
        /\ store[sh[p].name].live
        /\ store[sh[p].name].val = sh[p].capacity
        /\ hist.sum[sh[p].name] = sh[p].capacity
        /\ Cardinality(Held) = 1

\* C12 as stated: in either backend an Add made while the current window has
\* not elapsed (now is not after the reset of the bucket), whether it succeeds
\* or returns ErrorFull, leaves the reset of the bucket as it was.
C12_ResetKeptInsideWindow ==
    [][/\ (last'.op = "Add" /\ now <= heap[last'.obj].reset)
          => heap'[last'.obj].reset = heap[last'.obj].reset
       /\ \A p \in Procs :
             (/\ pc[p] \in {"add_full", "add_reset"} /\ pc'[p] = "idle"
              /\ now <= sh[p].reset)
             => sh'[p].reset = sh[p].reset]_vars

\* C12 amended: the reset of a bucket changes only as the result of a call
\* that adds. Memory backend: Add changes it exactly when now is after reset
\* (to now + rate), and apart from Add only AddWithTime changes it. Redis
\* backend: Add, whether it succeeds or returns ErrorFull, leaves reset as it
\* is when reset lies in a later second than now, and else sets it to
\* now + PTTL milliseconds, also when the window has not elapsed and when the
\* key has no expiry or does not exist (PTTL -1 or -2); when that PTTL returns
\* an error, which Add does not look at, reset stays as it is.
C12_ResetChangedByAddOnly ==
    [][/\ last'.op = "Add"
          => heap'[last'.obj].reset =
                 (IF now > heap[last'.obj].reset
                  THEN now + heap[last'.obj].rate
                  ELSE heap[last'.obj].reset)
       /\ \A o \in Objs :
             heap'[o].reset # heap[o].reset
             => (last'.op \in {"Add", "AddWithTime"} /\ last'.obj = o)
       /\ \A p \in Held :
             sh'[p].reset # sh[p].reset
             => /\ pc[p] \in {"add_full", "add_reset"} /\ pc'[p] = "idle"
                /\ Unix(sh[p].reset) <= Unix(now)
                /\ sh'[p].reset = now + PTTL(sh[p].name) * millisecond]_vars

\* C12 witness: an Add of the redis backend that found no key returned
\* ErrorFull and left a reset before now, while the clock never advanced.
C12_Witness ==
    \E p \in Held :
        /\ pc[p] = "idle" /\ res[p].op = "Add" /\ res[p].err = ErrorFull
        /\ ticks = 0
        /\ ~store[sh[p].name].live
        /\ sh[p].reset < now

\* C13 as stated: redis backend, after an operation returned it holds no
\* connection, and it never held more than one connection at a time.
C13_OneConnectionAtATime ==
    \A p \in Procs :
        /\ res[p].open = 0
        /\ res[p].peak <= 1
        /\ loc[p].conns <= 1
        /\ pc[p] = "idle" => loc[p].conns = 0

\* C13 amended: redis backend, every connection that Create, Add or the reset
\* reconciliation borrowed is released on every exit path (success, ErrorFull,
\* an error of GET, INCRBY, PEXPIRE or PTTL, a value that is no number), so
\* that an operation that returned holds none. Add holds its own connection
\* until it returns, and the reset reconciliation it calls borrows a second
\* one unless reset lies in a later second than now: an Add holds up to two
\* connections at a time, Create holds one.
C13_ConnectionsReleased ==
    \A p \in Procs :
        /\ res[p].open = 0
        /\ res[p].peak <= 2
        /\ res[p].op = "Create" => res[p].peak = 1
        /\ loc[p].conns <= 1
        /\ pc[p] = "idle" => loc[p].conns = 0
        /\ pc[p] # "idle" => loc[p].conns = 1

\* C13 witness: an Add returned ErrorFull after a PTTL that failed, having held
\* two connections, and holds none.
C13_Witness ==
    \E p \in Held :
        /\ pc[p] = "idle" /\ res[p].op = "Add" /\ res[p].err = ErrorFull
        /\ res[p].peak = 2 /\ res[p].open = 0
        /\ sh[p].reset >= now

\* C14: memory backend without synchronization: the remaining of a struct
\* passes its capacity only when two Adds overlapped on it, and it is then a
\* value that wrapped around (2^64 - k for a small k); with Adds that do not
\* overlap remaining stays within the capacity. The state the claim describes
\* is C14_Witness.
C14_WrapOnlyByOverlap ==
    \A o \in Objs :
        /\ Above(heap[o].remaining, heap[o].capacity)
           => (o \in hist.torn /\ Wrapped(heap[o].remaining))
        /\ Wrapped(heap[o].remaining) => Above(heap[o].remaining, heap[o].capacity)

\* C14 witness: two Adds of amount 1 interleaved between the check and the
\* decrement on a struct with remaining 1, both were accepted, and remaining
\* wrapped around to 2^64 - 1, a value above the capacity.
C14_Witness ==
    \E o \in Objs :
        /\ mode = "unsync" /\ Quiet
        /\ o \in hist.torn
        /\ last.op = "Add" /\ last.obj = o /\ last.err = nil /\ last.amount = 1
        /\ Above(heap[o].remaining, heap[o].capacity)
        /\ heap[o].remaining = -1

\* The processes whose Add has a PEXPIRE outstanding for key n.
Arming(n) == {p \in Procs : pc[p] = "add_pexpire" /\ sh[p].name = n}

\* C15 as stated: redis backend, an Add issues PEXPIRE exactly when its INCRBY
\* created the key, and the expiry of a key that has one is never changed by
\* an Add while the key lives.
C15_ExpirySetOncePerWindow ==
    [][/\ \A p \in Procs :
             (pc[p] = "add_incrby" /\ pc'[p] # "add_incrby")
             => (pc'[p] = "add_pexpire" <=> ~store[sh[p].name].live)
       /\ \A n \in Keys :
             (store[n].live /\ store[n].exp # NoExpiry /\ store'[n].live)
             => store'[n].exp = store[n].exp]_vars

\* C15 amended: redis backend, an Add issues PEXPIRE exactly when its INCRBY
\* returned its own amount, that is when the key did not exist or its counter
\* was 0: while the counter is 0 (after an Add(0)) every Add sets the expiry
\* again and postpones it. Once the counter is positive and no PEXPIRE is
\* outstanding, no Add changes the expiry of the key while it lives.
C15_ExpirySetWhileCounterZero ==
    [][/\ \A p \in Procs :
             (pc[p] = "add_incrby" /\ pc'[p] # "add_incrby")
             => (pc'[p] = "add_pexpire"
                 <=> (~store[sh[p].name].live \/ store[sh[p].name].val = 0))
       /\ \A n \in Keys :
             (/\ store[n].live /\ store[n].exp # NoExpiry /\ store'[n].live
              /\ store[n].val > 0 /\ Arming(n) = {})
             => store'[n].exp = store[n].exp]_vars

\* C15 witness: an Add of a positive amount on a key that an Add(0) left at 0
\* with an expiry is about to set a later expiry.
C15_Witness ==
    \E p \in Held :
        /\ pc[p] = "add_pexpire" /\ ~loc[p].created /\ loc[p].amount > 0
        /\ store[sh[p].name].live
        /\ store[sh[p].name].val = loc[p].amount
        /\ store[sh[p].name].exp # NoExpiry
        /\ store[sh[p].name].exp < mstime(now) + expiry(sh[p].rate)

\* C16 as stated: redis backend, the reset an Add returns without error is
\* now + PTTL, the time at which the key expires.
C16_ResetIsExpiry ==
    [][\A p \in Procs :
          (pc[p] = "add_reset" /\ pc'[p] = "idle" /\ res'[p].err = nil)
          => sh'[p].reset = now + PTTL(sh[p].name) * millisecond]_vars

\* C16 amended: redis backend, an Add that returns without error reconciles
\* reset only when the reset of the handle does not lie in a later second than
\* now and the PTTL of the reconciliation succeeds: it is then now + PTTL, in
\* the milliseconds of the server the expiry of the key. When the reset lies
\* in a later second, or when the PTTL returns an error (which Add does not
\* look at), the Add returns the reset the handle had, which can differ from
\* the expiry of the key.
C16_ResetIsExpiryUnlessLaterSecond ==
    [][\A p \in Procs :
          (pc[p] = "add_reset" /\ pc'[p] = "idle" /\ res'[p].err = nil)
          => /\ Unix(sh[p].reset) > Unix(now)
                => (sh'[p].reset = sh[p].reset /\ res'[p].dropped = nil)
             /\ res'[p].dropped # nil => sh'[p].reset = sh[p].reset
             /\ (~(Unix(sh[p].reset) > Unix(now)) /\ res'[p].dropped = nil) =>
                   /\ sh'[p].reset = now + PTTL(sh[p].name) * millisecond
                   /\ (store[sh[p].name].live /\ store[sh[p].name].exp # NoExpiry)
                      => mstime(sh'[p].reset) = store[sh[p].name].exp]_vars

\* C16 witness: the only process created its bucket, and its Add, made after
\* the clock advanced and with no error of PTTL, created the key and returned
\* without error a reset that is not the expiry of the key.
C16_Witness ==
    \E p \in Held :
        /\ Cardinality(Held) = 1 /\ ticks > 0
        /\ pc[p] = "idle" /\ res[p].op = "Add" /\ res[p].err = nil
        /\ res[p].dropped = nil
        /\ store[sh[p].name].live /\ store[sh[p].name].exp # NoExpiry
        /\ mstime(sh[p].reset) # store[sh[p].name].exp

\* C17: redis backend without failures: in every state in which no Add is
\* between its INCRBY and its PEXPIRE every key that exists has an expiry,
\* which lies no further ahead than the longest rate; and an Add of an amount
\* within the capacity that finds no key, as after the expiry of the key of an
\* exhausted bucket, is accepted.
C17_EveryKeyExpires ==
    /\ [](\A n \in Keys :
            (store[n].live /\ Arming(n) = {})
            => /\ store[n].exp # NoExpiry
               /\ \E a \in Args : store[n].exp <= mstime(now) + expiry(a[2]))
    /\ [][\A p \in Procs :
            (/\ pc[p] = "idle" /\ pc'[p] \in {"add_full", "add_incrby"}
             /\ ~store[sh[p].name].live
             /\ loc'[p].amount <= sh[p].capacity)
            => pc'[p] = "add_incrby"]_vars

\* C17 witness: of two processes with buckets of one name and capacity, one
\* last saw the bucket exhausted, and after the clock advanced the Add of a
\* positive amount of the other was accepted into a new window.
C17_Witness ==
    \E p, q \in Held :
        /\ p # q /\ sh[p].name = sh[q].name /\ sh[p].capacity = sh[q].capacity
        /\ Quiet /\ ticks > 0
        /\ sh[q].remaining = 0
        /\ res[p].op = "Add" /\ res[p].err = nil
        /\ store[sh[p].name].live /\ store[sh[p].name].exp # NoExpiry
        /\ store[sh[p].name].val >= 1
        /\ store[sh[p].name].val <= sh[p].capacity
        /\ hist.sum[sh[p].name] = store[sh[p].name].val

\* C18: memory backend, after every AddWithTime(amount, t), accepted or not,
\* reset - rate <= t <= reset; a call with t < reset - rate sets reset to
\* t + rate and does not refill remaining; a call with
\* reset - rate <= t <= reset leaves reset as it is.
C18_TimeInsideWindow ==
    [][last'.op = "AddWithTime" =>
          LET t == last'.at
              b == heap[last'.obj]
              c == heap'[last'.obj]
          IN  /\ c.reset - c.rate <= t /\ t <= c.reset
              /\ t < b.reset - b.rate =>
                    /\ c.reset = t + b.rate
                    /\ c.remaining = (IF last'.err = nil
                                      THEN b.remaining - last'.amount
                                      ELSE b.remaining)
              /\ (b.reset - b.rate <= t /\ t <= b.reset) => c.reset = b.reset]_vars

\* C18 witness: an AddWithTime with a time before the window realigned a
\* struct that had accepted an amount, and left it short of its capacity.
C18_Witness ==
    /\ last.op = "AddWithTime" /\ last.moved /\ last.at < now
    /\ heap[last.obj].reset = last.at + heap[last.obj].rate
    /\ acc[last.obj].refill > acc[last.obj].moved
    /\ heap[last.obj].remaining < heap[last.obj].capacity

\* C19: memory backend, Clean(name) removes from the table exactly the
\* buckets whose updated is more than one hour before now, for every name
\* and whatever its argument; no other step removes an entry, so a bucket on
\* which Add or AddWithTime was called within the last hour stays; Create for
\* a name in the table does not refresh updated.
C19_CleanEvictsIdleOnly ==
    /\ [][\A m \in Names :
            (buckets[m] # 0 /\ buckets'[m] # buckets[m])
                => /\ buckets'[m] = 0
                   /\ heap[buckets[m]].updated < now - Hour]_vars
    /\ [][(\E n \in Names : Clean(n)) =>
            \A m \in Names :
                buckets'[m] =
                    IF buckets[m] # 0 /\ heap[buckets[m]].updated < now - Hour
                    THEN 0 ELSE buckets[m]]_vars
    /\ [][\A o \in Objs :
            (last'.op \in {"Add", "AddWithTime"} /\ last'.obj = o)
                => heap'[o].updated = now]_vars
    /\ [][\A p \in Procs :
            (mh[p] = NoHandle /\ mh'[p] # NoHandle /\ buckets[mh'[p].name] # 0)
                => heap'[buckets[mh'[p].name]].updated
                       = heap[buckets[mh'[p].name]].updated]_vars

\* C19 witness: Clean evicted a bucket idle for more than an hour and kept
\* another one whose last Add is less than an hour old; a Create for the
\* kept name came a full window after that Add.
C19_Witness ==
    \E p, q \in MemHeld :
        /\ mh[p].name # mh[q].name
        /\ buckets[mh[p].name] = 0
        /\ heap[mh[p].obj].updated < now - Hour
        /\ buckets[mh[q].name] = mh[q].obj
        /\ heap[mh[q].obj].updated > 0
        /\ heap[mh[q].obj].updated < now
        /\ heap[mh[q].obj].updated >= now - Hour

\* C20 as stated: memory backend with serialized calls, all handles of one
\* name refer to the same bucket, also a handle from before a Clean and one
\* from a Create after it; a Create for a name in the table leaves the
\* bucket unchanged.
C20_AllHandlesShare ==
    /\ [](mode = "memory" =>
            \A p, q \in MemHeld :
                mh[p].name = mh[q].name => mh[p].obj = mh[q].obj)
    /\ [][\A p \in Procs :
            (mh[p] = NoHandle /\ mh'[p] # NoHandle /\ buckets[mh'[p].name] # 0)
                => heap' = heap]_vars

\* C20 amended: memory backend with serialized calls, a Create for a name in
\* the table returns the bucket of the table and leaves every bucket as it
\* is, whatever capacity and rate are passed; a Create for a name not in the
\* table makes a new bucket. Handles of one name refer to the same bucket
\* unless Clean evicted the name between their Creates: then the earlier
\* handle keeps the evicted bucket and the later one has the new bucket.
C20_HandlesShareUntilEvicted ==
    /\ [](mode = "memory" =>
            \A p, q \in MemHeld :
                (mh[p].name = mh[q].name /\ mh[p].obj < mh[q].obj)
                    => buckets[mh[p].name] # mh[p].obj)
    /\ [][\A p \in Procs :
            (mode = "memory" /\ mh[p] = NoHandle /\ mh'[p] # NoHandle)
                => IF buckets[mh'[p].name] # 0
                   THEN /\ mh'[p].obj = buckets[mh'[p].name]
                        /\ heap' = heap /\ buckets' = buckets
                   ELSE /\ mh'[p].obj = Len(heap) + 1
                        /\ buckets'[mh'[p].name] = mh'[p].obj
                        /\ Len(heap') = Len(heap) + 1]_vars

\* C20 witness: one goroutine holds the bucket Clean evicted, taken from;
\* another holds the bucket a later Create made for the same name.
C20_Witness ==
    \E p, q \in MemHeld :
        /\ mode = "memory"
        /\ mh[p].name = mh[q].name /\ mh[p].obj < mh[q].obj
        /\ buckets[mh[q].name] = mh[q].obj
        /\ heap[mh[p].obj].remaining < heap[mh[p].obj].capacity
        /\ heap[mh[q].obj].remaining = heap[mh[q].obj].capacity
====
